---- MODULE Spec2Model ----
(***************************************************************************)
(* Model of the server-playground agent: the LangGraph workflow with the   *)
(* refund validation node (agent.py), the trik-server HTTP client          *)
(* (trik_client.py), the tool loader (tools.py) and the CLI loop (cli.py). *)
(*                                                                         *)
(* Python values are written as strings; None is the string "None", which  *)
(* is different from the empty string "".  A text is a sequence of string  *)
(* pieces, so that an f-string keeps the parts it was built from.          *)
(***************************************************************************)
EXTENDS Integers, Sequences, FiniteSets, TLC

\* ---------------------------------------------------------------- bounds
MaxCalls == 2       \* tool calls the decision model emits in one session
MaxTurns == 2       \* user turns in one session
MaxUnread == 3      \* slot writes remembered since the last read
MaxRemote == 2
MaxThreads == 2      \* tools the gateway lists

\* ------------------------------------------------------------ Python values
None == "None"

\* Python truthiness of a scalar (None, "", 0 and False are falsy)
Truthy(v) == v \notin {None, "", "0", "False"}

\* a key that the decoded JSON object does not have
Absent == "<absent>"

\* dict.get(key, default): the default only replaces a missing key
Get(d, key, default) == IF d[key] = Absent THEN default ELSE d[key]

\* dict.get(key, default) of a dict written with only the keys it has
GetKey(d, key, default) == IF key \in DOMAIN d THEN d[key] ELSE default

\* `a or b`
Or(a, b) == IF Truthy(a) THEN a ELSE b

\* ------------------------------------------------------------ gateway client
\* execute that keeps the first session id and ignores later ones
execute_first_wins(tool, input_data, session_id, stored, resp) ==
    LET sid == Or(session_id, stored)
        sent == Get(resp, "sessionId", None)
    IN  [payload |-> [tool |-> tool, input |-> input_data,
                      sessionId |-> IF Truthy(sid) THEN sid ELSE Absent],
         result  |-> resp,
         session |-> IF resp.ok /\ Truthy(sent) /\ ~Truthy(stored)
                     THEN sent ELSE stored]

\* TrikClient.execute: builds the payload, posts it, stores the session id of
\* an ok response.  resp is the HTTP response: resp.ok and the decoded body.
execute(tool, input_data, session_id, stored, resp) ==
    LET sid == Or(session_id, stored)
        payload == [tool |-> tool, input |-> input_data,
                    sessionId |-> IF Truthy(sid) THEN sid ELSE Absent]
        sent == Get(resp, "sessionId", None)
    IN  [payload |-> payload,
         result  |-> resp,
         session |-> IF ~resp.ok THEN stored
                     ELSE IF Truthy(sent) THEN sent ELSE stored]

\* TrikClient.get_content: raise_for_status, then the decoded body
get_content(cr) ==
    IF cr.status # "ok" THEN [raised |-> TRUE, body |-> cr]
    ELSE [raised |-> FALSE, body |-> cr]

\* kwargs passed on as they are
FilterNone_keeps_all(kwargs) == kwargs

\* kwargs without the None values
FilterNone(kwargs) ==
    [k \in {x \in DOMAIN kwargs : kwargs[x] # None} |-> kwargs[k]]

Return(text) == [kind |-> "return", text |-> text]
Raise == [kind |-> "raise", text |-> <<"HTTPError">>]

\* a failure envelope answered like a success envelope
ErrorReturn_as_response(result) ==
    <<Get(result, "response", "Action completed.")>>

\* the text execute_tool returns for a failure envelope
ErrorReturn(result) == <<"Error: ", Get(result, "error", "Unknown error")>>

\* template mode answered with the generic acknowledgment
TemplateReturn_generic(result) == <<"Action completed.">>

\* the text execute_tool returns in template mode and for an unknown mode
TemplateReturn(result) == <<Get(result, "response", "Action completed.")>>

\* passthrough content handed back to the agent
PassthroughReturn_leaks(result, content_text) == <<content_text>>

\* the text execute_tool returns after fetching passthrough content
PassthroughReturn(result, content_text) ==
    <<"[", Get(result, "contentType", "content"), " delivered to user]">>

\* TrikClient.execute_tool: the text handed back to the agent, together with
\* everything the call did: the payload sent, the stored session id, the
\* content references fetched and the passthrough callbacks made.
\* on_passthrough is TRUE when a callback is configured; resp is the response
\* to the execute request and cr the response to the content request.
execute_tool(tool_name, kwargs, stored, on_passthrough, resp, cr) ==
    LET filtered_input == FilterNone(kwargs)
        ex == execute(tool_name, filtered_input, None, stored, resp)
        result == ex.result
        Out(ret, fetches, callbacks) ==
            [ret |-> ret, payload |-> ex.payload, session |-> ex.session,
             fetches |-> fetches, callbacks |-> callbacks]
        response_mode == Get(result, "responseMode", None)
        content_ref == Get(result, "userContentRef", None)
        content_result == get_content(cr)
        content_text == Get(cr, "content", "")
        metadata == Get(cr, "metadata", "{}")
    IN  IF ~result.success
        THEN Out(Return(ErrorReturn(result)), <<>>, <<>>)
        ELSE IF response_mode = "template"
        THEN Out(Return(TemplateReturn(result)), <<>>, <<>>)
        ELSE IF response_mode = "passthrough"
        THEN IF Truthy(content_ref)
             THEN IF content_result.raised
                  THEN Out(Raise, <<content_ref>>, <<>>)
                  ELSE IF cr.success
                  THEN Out(Return(PassthroughReturn(result, content_text)),
                           <<content_ref>>,
                           IF on_passthrough
                           THEN <<[content |-> content_text,
                                   metadata |-> metadata]>>
                           ELSE <<>>)
                  ELSE Out(Return(<<"Content delivered to user.">>),
                           <<content_ref>>, <<>>)
             ELSE Out(Return(<<"Content delivered to user.">>), <<>>, <<>>)
        ELSE Out(Return(TemplateReturn(result)), <<>>, <<>>)

\* ------------------------------------------------------- passthrough slot
\* _last_passthrough_content: <<>> is None, <<item>> is the stored tuple

\* handle_passthrough that does not overwrite a filled slot
handle_passthrough_keeps_first(cur, content, metadata) ==
    IF cur = <<>> THEN <<[content |-> content, metadata |-> metadata]>> ELSE cur

\* handle_passthrough
handle_passthrough(cur, content, metadata) ==
    <<[content |-> content, metadata |-> metadata]>>

\* get_last_passthrough_content: the value returned and the slot afterwards
get_last_passthrough_content(cur) == [content |-> cur, slot |-> <<>>]

\* ------------------------------------------------------------ tool registry
\* A tool name is the sequence of its pieces, so that replacing the colons
\* is something the model computes.
request_refund == <<"request", "_", "refund">>
find_order == <<"find", "_", "order">>
get_project_details == <<"get", "_", "project", "_", "details">>

LocalTool(name) == [name |-> name, kind |-> "local", target |-> name]

\* BUILT_IN_TOOLS
BUILT_IN_TOOLS ==
    <<LocalTool(request_refund), LocalTool(find_order),
      LocalTool(get_project_details)>>

\* tool_name.replace(":", "_")
ReplaceColons(name) ==
    [i \in DOMAIN name |-> IF name[i] = ":" THEN "_" ELSE name[i]]

\* TrikClient.create_langchain_tools: one StructuredTool per listed tool, bound
\* to execute_tool with the listed name
create_langchain_tools(listing) ==
    [i \in DOMAIN listing |->
        [name |-> ReplaceColons(listing[i]), kind |-> "remote",
         target |-> listing[i]]]

\* ToolLoader.get_all_tools, given the tools load_trik_tools returned
get_all_tools(trik_tools) == BUILT_IN_TOOLS \o trik_tools

\* ToolNode(tools).tools_by_name[name]: the dict is filled in list order, so a
\* later tool of the same name replaces an earlier one
ToolByName(tools, name) ==
    LET idx == {i \in DOMAIN tools : tools[i].name = name}
    IN  tools[CHOOSE i \in idx : \A j \in idx : j <= i]

\* ------------------------------------------------------------------- graph
VARIABLES
    messages,       \* cli.py: the conversation kept by main()
    state,          \* MessagesState["messages"] of the running graph
    pc,             \* "input", a graph node, "END" or "raised"
    nextId,         \* next unused tool call id
    turns,          \* user turns submitted
    handle_tool_errors, \* whether ToolNode turns a tool exception into a result
    dispatched,     \* the tool calls ToolNode ran, in order, each with the
                    \* gateway's answer when the tool is remote
    gate,           \* evaluations made by the validator
    slot,           \* agent._last_passthrough_content
    shown,          \* passthrough content main() printed for the last turn
    session_id,     \* TrikClient._session_id
    on_passthrough, \* whether TrikClient.on_passthrough is set
    last,           \* the latest client invocation: its inputs and what it did
    first_sid,      \* the first session id an ok response supplied
    recent_sid,     \* the latest session id an ok response supplied
    unread,         \* the items written to the slot since the last read
    slot_op,        \* the latest slot operation: "none", "write" or "read"
    read_from,      \* the unread writes at the time of the latest read
    read_result,    \* what the latest read returned
    all_tools,      \* the tool list load_all_tools returned
    handled,        \* the registry entry that ran the latest dispatched call
    init_status,    \* "none", "ready" once the tools are loaded, or "aborted"
    load_failure,   \* the step of the latest loading that failed, or "none"
    stored_before,  \* cli.py: the conversation kept before the latest input
    turn_result,    \* "none", "running", "answered" or "failed"
    threads         \* per thread, where its call of TrikClient.execute is

cliVars == <<stored_before, turn_result>>
graphVars == <<messages, state, pc, nextId, turns, handle_tool_errors,
               dispatched, gate, shown, stored_before, turn_result>>
clientVars == <<on_passthrough, last, first_sid, recent_sid, threads>>
slotVars == <<unread, slot_op, read_from, read_result>>
registryVars == <<all_tools, handled, init_status, load_failure>>

HumanMessage == [type |-> "human", calls |-> <<>>, id |-> 0, content |-> <<"hi">>]
AIMessage(calls) == [type |-> "ai", calls |-> calls, id |-> 0, content |-> <<>>]
ToolMessage(id, content) ==
    [type |-> "tool", calls |-> <<>>, id |-> id, content |-> content]

Last(seq) == seq[Len(seq)]

\* the remote tool the gateway lists, under its LangChain name
RemoteTool == <<"article-search", ":", "search">>
RemoteName == ReplaceColons(RemoteTool)

\* the registry initialize_agent_with_triks builds when the gateway lists
\* one tool
GraphTools == get_all_tools(create_langchain_tools(<<RemoteTool>>))

\* what the decision model may ask for in one tool call
CallKinds ==
    { [name |-> request_refund, reason |-> r] :
          r \in {"I want a refund", "product arrived damaged"} }
    \cup { [name |-> find_order, reason |-> Absent],
           [name |-> RemoteName, reason |-> Absent] }

\* route_after_agent that ends the cycle whatever the model answered
route_after_agent_always_end(st) == "END"

\* route_after_agent
route_after_agent(st) ==
    LET last_message == Last(st)
        tool_calls == last_message.calls
    IN  IF last_message.type # "ai" THEN "END"
        ELSE IF tool_calls = <<>> THEN "END"
        ELSE IF \E i \in 1..Len(tool_calls) :
                    tool_calls[i].name = request_refund
        THEN "validate_refund"
        ELSE "tools"

\* route_after_validation that hands every verdict back to the agent
route_after_validation_always_agent(st) == "agent"

\* route_after_validation that forgets the rejection branch
route_after_validation_always_tools(st) == "tools"

\* route_after_validation
route_after_validation(st) ==
    IF Last(st).type = "tool" THEN "agent" ELSE "tools"

\* call_model: the model answers with plain text or with tool calls
call_model ==
    /\ pc = "agent"
    /\ \E n \in 0..(MaxCalls - (nextId - 1)) :
         /\ \E kinds \in [1..n -> CallKinds] :
              LET calls == [i \in 1..n |->
                              [id |-> nextId + i - 1, name |-> kinds[i].name,
                               reason |-> kinds[i].reason]]
              IN  /\ state' = Append(state, AIMessage(calls))
                  /\ nextId' = nextId + n
    /\ pc' = route_after_agent(state')
    /\ UNCHANGED <<messages, turns, handle_tool_errors, dispatched, gate,
                   shown, slot, session_id, clientVars, slotVars, registryVars,
                   cliVars>>

\* call_model when the model call fails
call_model_raises ==
    /\ pc = "agent"
    /\ pc' = "raised"
    /\ UNCHANGED <<messages, state, nextId, turns, handle_tool_errors,
                   dispatched, gate, shown, slot, session_id, clientVars, slotVars, registryVars,
                   cliVars>>

\* index of the first request_refund call, 0 when there is none
FirstRefund(tool_calls) ==
    LET idx == {i \in 1..Len(tool_calls) : tool_calls[i].name = request_refund}
    IN  IF idx = {} THEN 0 ELSE CHOOSE i \in idx : \A j \in idx : i <= j

Feedback == "Please say why."

\* validate_refund followed by route_after_validation
validate_refund ==
    /\ pc = "validate_refund"
    /\ LET last_message == Last(state)
           tool_calls == last_message.calls
           k == FirstRefund(tool_calls)
       IN  IF last_message.type # "ai" \/ k = 0
           THEN /\ state' = state
                /\ gate' = gate
           ELSE LET refund_call == tool_calls[k]
                    reason == Get(refund_call, "reason", "")
                IN  \E is_valid \in BOOLEAN :
                      /\ gate' = gate \cup {[id |-> refund_call.id,
                                             reason |-> reason,
                                             valid |-> is_valid]}
                      /\ state' =
                           IF ~is_valid
                           THEN Append(state,
                                  ToolMessage(refund_call.id,
                                    <<"VALIDATION FAILED: ", Feedback,
                                      " Please ask the customer for a more specific reason before trying again!">>))
                           ELSE state
    /\ pc' = route_after_validation(state')
    /\ UNCHANGED <<messages, nextId, turns, handle_tool_errors,
                   dispatched, shown, slot, session_id, clientVars, slotVars, registryVars,
                   cliVars>>

\* validate_refund when the validator call fails
validate_refund_raises ==
    /\ pc = "validate_refund"
    /\ pc' = "raised"
    /\ UNCHANGED <<messages, state, nextId, turns, handle_tool_errors,
                   dispatched, gate, shown, slot, session_id, clientVars, slotVars, registryVars,
                   cliVars>>

\* ---------------------------------------------------------------- ToolNode
\* responses of the gateway to the execute request of the graph's remote tool
NoContent == [status |-> "ok", success |-> FALSE, content |-> Absent,
              metadata |-> Absent]
TemplateResponse ==
    [ok |-> TRUE, success |-> TRUE, sessionId |-> Absent,
     responseMode |-> "template", response |-> "r1", userContentRef |-> Absent,
     contentType |-> Absent, error |-> Absent]
FailureResponse ==
    [ok |-> FALSE, success |-> FALSE, sessionId |-> Absent,
     responseMode |-> Absent, response |-> Absent, userContentRef |-> Absent,
     contentType |-> Absent, error |-> "boom"]
FailureTemplateResponse ==
    [ok |-> TRUE, success |-> FALSE, sessionId |-> Absent,
     responseMode |-> "template", response |-> Absent,
     userContentRef |-> Absent, contentType |-> Absent, error |-> Absent]
FailurePassthroughResponse ==
    [ok |-> FALSE, success |-> FALSE, sessionId |-> Absent,
     responseMode |-> "passthrough", response |-> Absent,
     userContentRef |-> "ref1", contentType |-> Absent, error |-> "boom"]
PassthroughResponse ==
    [ok |-> TRUE, success |-> TRUE, sessionId |-> Absent,
     responseMode |-> "passthrough", response |-> Absent,
     userContentRef |-> "ref1", contentType |-> "article", error |-> Absent]
ContentOk == [status |-> "ok", success |-> TRUE, content |-> "body1",
              metadata |-> "m1"]
ContentHttpError == [status |-> "http_error", success |-> FALSE,
                     content |-> Absent, metadata |-> Absent]

GraphOutcomes ==
    { [resp |-> TemplateResponse, cr |-> NoContent],
      [resp |-> FailureResponse, cr |-> NoContent],
      [resp |-> FailureTemplateResponse, cr |-> NoContent],
      [resp |-> FailurePassthroughResponse, cr |-> NoContent],
      [resp |-> PassthroughResponse, cr |-> ContentOk],
      [resp |-> PassthroughResponse, cr |-> ContentHttpError] }

\* text a built-in tool returns
LocalResult(name) ==
    IF name = request_refund THEN <<"Refund request submitted for order">>
    ELSE IF name = find_order THEN <<"Found order with description">>
    ELSE <<"Project: TrikHub Server Playground">>

\* one tool run by ToolNode: the registry's handler for the call's name
RunTool(tools, call, stored, gw) ==
    LET tool == ToolByName(tools, call.name)
    IN  IF tool.kind = "local"
        THEN [ret |-> Return(LocalResult(tool.target)), session |-> stored,
              callbacks |-> <<>>, handler |-> tool]
        ELSE LET out == execute_tool(tool.target, [query |-> "abc"], stored,
                                     TRUE, gw.resp, gw.cr)
             IN  [ret |-> out.ret, session |-> out.session,
                  callbacks |-> out.callbacks, handler |-> tool]

\* the slot after the callbacks of one tool run
AfterCallbacks(cur, callbacks) ==
    IF callbacks = <<>> THEN cur
    ELSE handle_passthrough(cur, Last(callbacks).content,
                            Last(callbacks).metadata)

\* ToolNode after one more tool call: the call's result turn, the session id
\* and the slot it leaves, and whether it raised
RunCall(tools, call, gw, acc) ==
    CHOOSE next \in
        { [session |-> r.session,
           slot |-> AfterCallbacks(acc.slot, r.callbacks),
           msgs |-> Append(acc.msgs,
                      ToolMessage(call.id,
                          IF r.ret.kind = "raise"
                          THEN <<"Error: ", r.ret.text[1],
                                 " Please fix your mistakes.">>
                          ELSE r.ret.text)),
           ran |-> Append(acc.ran,
                     [id |-> call.id, name |-> call.name,
                      reason |-> call.reason, resp |-> gw.resp]),
           raised |-> acc.raised \/ r.ret.kind = "raise"]
          : r \in {RunTool(tools, call, acc.session, gw)} } : TRUE

\* ToolNode runs every tool call of the last AI message, in order
RECURSIVE RunCalls(_, _, _, _, _)
RunCalls(tools, calls, gws, i, acc) ==
    IF i > Len(calls) THEN acc
    ELSE CHOOSE run \in
             { RunCalls(tools, calls, gws, i + 1, next)
               : next \in {RunCall(tools, calls[i], gws[i], acc)} } : TRUE

\* the message ToolNode takes the tool calls from: the latest AI message
LatestAIMessage(st) ==
    LET idx == {i \in DOMAIN st : st[i].type = "ai"}
    IN  IF idx = {} THEN AIMessage(<<>>)
        ELSE st[CHOOSE i \in idx : \A j \in idx : j <= i]

\* the "tools" node and the edge back to the agent
tools_node ==
    /\ pc = "tools"
    /\ LET calls == LatestAIMessage(state).calls
       IN  \E gws \in [1..Len(calls) -> GraphOutcomes] :
             /\ \A i \in 1..Len(calls) :
                  calls[i].name # RemoteName =>
                      gws[i] = [resp |-> TemplateResponse, cr |-> NoContent]
             /\ \E run \in {RunCalls(all_tools, calls, gws, 1,
                              [session |-> session_id, slot |-> slot,
                               msgs |-> <<>>, ran |-> <<>>, raised |-> FALSE])} :
                    /\ session_id' = run.session
                    /\ slot' = run.slot
                    /\ dispatched' = dispatched \o run.ran
                    /\ IF run.raised /\ ~handle_tool_errors
                       THEN /\ pc' = "raised"
                            /\ state' = state
                       ELSE /\ pc' = "agent"
                            /\ state' = state \o run.msgs
    /\ UNCHANGED <<messages, nextId, turns, handle_tool_errors, gate,
                   shown, clientVars, slotVars, registryVars,
                   cliVars>>

\* -------------------------------------------------------------------- CLI
\* main: a user input is appended and the graph is invoked on the list
user_input ==
    /\ pc = "input"
    /\ turns < MaxTurns
    /\ stored_before' = messages
    /\ turn_result' = "running"
    /\ messages' = Append(messages, HumanMessage)
    /\ state' = messages'
    /\ turns' = turns + 1
    /\ pc' = "agent"
    /\ UNCHANGED <<nextId, handle_tool_errors, dispatched, gate, shown,
                   slot, session_id, clientVars, slotVars, registryVars>>

\* main: messages.clear() then messages.extend(result["messages"]), keeping
\* only the last message of the result
clear_extend_last_only(stored, result) == <<Last(result)>>

\* main: messages.clear() then messages.extend(result["messages"])
clear_extend(stored, result) == result

\* main: graph.invoke returned
turn_done ==
    /\ pc = "END"
    /\ LET passthrough == get_last_passthrough_content(slot)
       IN  /\ shown' = passthrough.content
           /\ slot' = passthrough.slot
    /\ messages' = clear_extend(messages, state)
    /\ pc' = "input"
    /\ turn_result' = "answered"
    /\ UNCHANGED <<state, nextId, turns, handle_tool_errors, dispatched,
                   gate, session_id, clientVars, slotVars, registryVars,
                   stored_before>>

\* main: graph.invoke raised and the except clause reported it
turn_failed ==
    /\ pc = "raised"
    /\ pc' = "input"
    /\ turn_result' = "failed"
    /\ UNCHANGED <<messages, state, nextId, turns, handle_tool_errors,
                   dispatched, gate, shown, slot, session_id, clientVars,
                   slotVars, registryVars, stored_before>>

vars == <<messages, state, pc, nextId, turns, handle_tool_errors,
          dispatched, gate, slot, shown, session_id, on_passthrough, last,
          first_sid, recent_sid, unread, slot_op, read_from, read_result,
          all_tools, handled, init_status, load_failure, stored_before,
          turn_result, threads>>

\* the threads that may call one client at a time
Threads == 1..MaxThreads

\* no thread is inside TrikClient.execute
NoThreads == [t \in Threads |-> [at |-> "idle", sid |-> None, resp |-> <<>>]]

\* no client invocation yet
NoCall ==
    [op |-> "none", schema |-> <<>>, supplied |-> <<>>, kwargs |-> <<>>,
     explicit |-> None,
     before |-> None, first_before |-> None, sent |-> FALSE,
     resp |-> FailureResponse, cr |-> NoContent,
     out |-> [ret |-> Return(<<>>),
              payload |-> [tool |-> <<>>, input |-> <<>>, sessionId |-> Absent],
              session |-> None, fetches |-> <<>>, callbacks |-> <<>>]]

\* nothing has touched the slot or loaded a registry on the side
SideInit ==
    /\ unread = <<>>
    /\ slot_op = "none"
    /\ read_from = <<>>
    /\ read_result = <<>>
    /\ all_tools = GraphTools
    /\ handled = LocalTool(request_refund)
    /\ init_status = "ready"
    /\ load_failure = "none"

Init ==
    /\ SideInit
    /\ on_passthrough = TRUE
    /\ last = NoCall
    /\ threads = NoThreads
    /\ first_sid = None
    /\ recent_sid = None
    /\ messages = <<>>
    /\ state = <<>>
    /\ pc = "input"
    /\ nextId = 1
    /\ turns = 0
    /\ handle_tool_errors \in BOOLEAN
    /\ dispatched = <<>>
    /\ gate = {}
    /\ slot = <<>>
    /\ shown = <<>>
    /\ session_id = None
    /\ stored_before = <<>>
    /\ turn_result = "none"

Next ==
    \/ user_input
    \/ call_model
    \/ call_model_raises
    \/ validate_refund
    \/ validate_refund_raises
    \/ tools_node
    \/ turn_done
    \/ turn_failed

Spec == Init /\ [][Next]_vars

\* One step of a running cycle or of main's handling of its end, for a model
\* that always answers: graph.invoke runs the nodes one after the other until
\* END or an exception, and main then stores the result or reports the error.
CycleStep ==
    \/ call_model
    \/ validate_refund
    \/ validate_refund_raises
    \/ tools_node
    \/ turn_done
    \/ turn_failed

AnsweringNext ==
    \/ user_input
    \/ CycleStep

\* The loop with a model that answers every call, with plain text once
\* MaxCalls tool calls were made; a started cycle keeps running.
AnsweringSpec == Init /\ [][AnsweringNext]_vars /\ WF_vars(CycleStep)

\* ------------------------------------------------- gateway client, alone
\* A client used on its own: any tool arguments, any response of the gateway.

\* inputSchema of the remote tool: a required string and an optional integer
SearchSchema ==
    [type |-> "object",
     properties |-> [query |-> "string", limit |-> "integer"],
     required |-> {"query"}]

\* the same schema without "type", without "properties", and without both
UntypedSchema ==
    [properties |-> [query |-> "string", limit |-> "integer"],
     required |-> {"query"}]
BareSchema == [type |-> "object", required |-> {"query"}]
RequiredOnlySchema == [required |-> {"query"}]

\* input schemas a listed tool may carry, each declaring query as required
Schemas == {SearchSchema, UntypedSchema, BareSchema, RequiredOnlySchema}

NoSchema == <<>>

\* TrikClient._build_args_schema: None, or for each property whether it is
\* required (a field without default) or optional (default None)
_build_args_schema(input_schema) ==
    IF input_schema = <<>> \/ GetKey(input_schema, "type", None) # "object"
    THEN NoSchema
    ELSE LET properties == GetKey(input_schema, "properties", <<>>)
             required == GetKey(input_schema, "required", {})
         IN  IF DOMAIN properties = {} THEN NoSchema
             ELSE [prop_name \in DOMAIN properties |->
                      [type |-> properties[prop_name],
                       required |-> prop_name \in required]]

\* the arguments that reach tool_func when the tool was made without
\* args_schema: StructuredTool then knows only the signature (**kwargs), and
\* hands over the supplied arguments or, keeping only what its inferred model
\* names, none of them
unvalidated_kwargs(supplied, kept) == IF kept THEN supplied ELSE <<>>

\* the arguments StructuredTool passes to tool_func after validating the
\* supplied ones against args_schema: the supplied arguments, and, when the
\* library also passes the defaults, None for every optional one left out
tool_kwargs(args_schema, supplied, pass_defaults) ==
    LET optional == {k \in DOMAIN args_schema : ~args_schema[k].required}
        keys == DOMAIN supplied \cup (IF pass_defaults THEN optional ELSE {})
    IN  [k \in keys |-> IF k \in DOMAIN supplied THEN supplied[k] ELSE None]

\* a required field is missing: the validation of args_schema fails
MissingRequired(args_schema, supplied) ==
    \E k \in DOMAIN args_schema :
        args_schema[k].required /\ k \notin DOMAIN supplied

\* arguments a tool call may carry for the remote tool
SuppliedArgs ==
    { [query |-> "abc"] }
    \cup { [query |-> "abc", limit |-> v] : v \in {None, "0", "5"} }
    \cup { [limit |-> "5"] }

\* bodies the gateway may answer an execute request with; a non-success HTTP
\* status carries an error envelope, an error envelope has no response text
\* or content type, a success envelope no error message.  Either the envelope
\* varies in the fields execute_tool reads, or in those execute reads.
BodyResponses ==
    { r \in [ok : BOOLEAN, success : BOOLEAN,
             sessionId : {Absent},
             responseMode : {Absent, "template", "passthrough"},
             response : {Absent, "r1"},
             userContentRef : {Absent, "ref1"},
             contentType : {Absent, "article"},
             error : {Absent, "boom"}] :
        /\ ~r.ok => ~r.success
        /\ r.success => r.error = Absent
        /\ ~r.success => r.response = Absent /\ r.contentType = Absent }

SessionResponses ==
    { [TemplateResponse EXCEPT !.ok = b[1], !.success = b[2],
                               !.sessionId = sid] :
        b \in {<<TRUE, TRUE>>, <<TRUE, FALSE>>, <<FALSE, FALSE>>},
        sid \in {Absent, "", "s1", "s2"} }

Responses == BodyResponses \cup SessionResponses

\* answers to the content request
ContentResponses ==
    { ContentHttpError, NoContent }
    \cup [status : {"ok"}, success : {TRUE}, content : {"body1", "article"},
          metadata : {Absent, "m1"}]

\* the content request is only made for a successful passthrough envelope
\* that carries a reference
Fetches(resp) ==
    /\ resp.success
    /\ resp.responseMode = "passthrough"
    /\ Truthy(Get(resp, "userContentRef", None))

\* the first session id an ok response supplied
FirstSupplied(cur, resp) ==
    IF cur = None /\ resp.ok /\ Truthy(Get(resp, "sessionId", None))
    THEN resp.sessionId ELSE cur

\* the latest session id an ok response supplied
RecentSupplied(cur, resp) ==
    IF resp.ok /\ Truthy(Get(resp, "sessionId", None))
    THEN resp.sessionId ELSE cur

\* a tool call of a remote tool: StructuredTool validates the arguments
\* against args_schema, if the tool has one, and tool_func calls execute_tool
tool_func ==
    /\ \E resp \in Responses :
       \E cr \in (IF Fetches(resp) THEN ContentResponses ELSE {NoContent}) :
       \E schema \in (IF resp = TemplateResponse THEN Schemas
                      ELSE {SearchSchema}) :
       \E supplied \in (IF resp = TemplateResponse THEN SuppliedArgs
                        ELSE {[query |-> "abc"]}) :
       \E pass_defaults \in (IF resp = TemplateResponse /\ schema = SearchSchema
                             THEN BOOLEAN ELSE {FALSE}) :
       \E kept \in (IF schema = SearchSchema THEN {TRUE} ELSE BOOLEAN) :
      LET args_schema == _build_args_schema(schema)
          kwargs == IF args_schema = NoSchema
                    THEN unvalidated_kwargs(supplied, kept)
                    ELSE tool_kwargs(args_schema, supplied, pass_defaults)
          out == execute_tool(RemoteTool, kwargs, session_id, on_passthrough,
                              resp, cr)
      IN  IF args_schema # NoSchema /\ MissingRequired(args_schema, supplied)
          THEN /\ ~pass_defaults
               /\ last' = [NoCall EXCEPT !.op = "invalid",
                                         !.schema = schema,
                                         !.supplied = supplied,
                                         !.before = session_id,
                                         !.first_before = first_sid,
                                         !.out.session = session_id]
               /\ UNCHANGED <<session_id, slot, first_sid, recent_sid>>
          ELSE /\ last' = [op |-> "execute_tool", schema |-> schema,
                           supplied |-> supplied,
                           kwargs |-> kwargs, explicit |-> None,
                           before |-> session_id, first_before |-> first_sid,
                           sent |-> TRUE, resp |-> resp, cr |-> cr,
                           out |-> out]
               /\ session_id' = out.session
               /\ slot' = AfterCallbacks(slot, out.callbacks)
               /\ first_sid' = FirstSupplied(first_sid, resp)
               /\ recent_sid' = RecentSupplied(recent_sid, resp)
    /\ UNCHANGED <<graphVars, on_passthrough, slotVars, registryVars, threads>>

\* a direct call of TrikClient.execute, with or without a session id
client_execute ==
    /\ \E explicit \in {None, "", "e1"}, resp \in SessionResponses :
      LET ex == execute(RemoteTool, [query |-> "abc"], explicit, session_id,
                        resp)
      IN  /\ last' = [op |-> "execute", schema |-> SearchSchema,
                      supplied |-> [query |-> "abc"],
                      kwargs |-> [query |-> "abc"], explicit |-> explicit,
                      before |-> session_id, first_before |-> first_sid,
                      sent |-> TRUE, resp |-> resp, cr |-> NoContent,
                      out |-> [ret |-> Return(<<>>), payload |-> ex.payload,
                               session |-> ex.session, fetches |-> <<>>,
                               callbacks |-> <<>>]]
          /\ session_id' = ex.session
          /\ first_sid' = FirstSupplied(first_sid, resp)
          /\ recent_sid' = RecentSupplied(recent_sid, resp)
    /\ UNCHANGED <<graphVars, on_passthrough, slot, slotVars, registryVars,
                   threads>>

\* no conversation is running
GraphIdle ==
    /\ messages = <<>>
    /\ state = <<>>
    /\ pc = "input"
    /\ nextId = 1
    /\ turns = 0
    /\ handle_tool_errors = TRUE
    /\ dispatched = <<>>
    /\ gate = {}
    /\ shown = <<>>
    /\ stored_before = <<>>
    /\ turn_result = "none"

ClientInit ==
    /\ GraphIdle
    /\ SideInit
    /\ slot = <<>>
    /\ session_id = None
    /\ on_passthrough \in BOOLEAN
    /\ last = NoCall
    /\ threads = NoThreads
    /\ first_sid = None
    /\ recent_sid = None

ClientNext ==
    \/ tool_func
    \/ client_execute

ClientSpec == ClientInit /\ [][ClientNext]_vars

\* ------------------------------------------- gateway client, shared
\* One client called from several threads, as by the tool functions of one
\* decision step that ToolNode hands to its thread pool: each call of execute
\* reads the stored session id and posts, receives the response, and stores
\* the response's session id, with nothing that excludes another thread
\* between these steps.

\* what the gateway may answer a thread's request
ThreadResponses ==
    { [TemplateResponse EXCEPT !.ok = ok, !.sessionId = sid] :
        ok \in BOOLEAN, sid \in {Absent, "s1", "s2"} }

\* execute up to requests.post: the session id is read and sent
execute_post(t) ==
    /\ threads[t].at = "idle"
    /\ LET payload == execute(RemoteTool, [query |-> "abc"], None, session_id,
                              TemplateResponse).payload
       IN  threads' = [threads EXCEPT ![t] =
                          [at |-> "posted", resp |-> <<>>,
                           sid |-> IF payload.sessionId = Absent THEN None
                                   ELSE payload.sessionId]]
    /\ UNCHANGED <<graphVars, slot, session_id, on_passthrough, last,
                   first_sid, recent_sid, slotVars, registryVars>>

\* the response arrives and is decoded
execute_response(t) ==
    /\ threads[t].at = "posted"
    /\ \E resp \in ThreadResponses :
         threads' = [threads EXCEPT ![t].at = "received", ![t].resp = resp]
    /\ UNCHANGED <<graphVars, slot, session_id, on_passthrough, last,
                   first_sid, recent_sid, slotVars, registryVars>>

\* the rest of execute: the session id of an ok response is stored
execute_store(t) ==
    /\ threads[t].at = "received"
    /\ session_id' = execute(RemoteTool, [query |-> "abc"], None, session_id,
                             threads[t].resp).session
    /\ threads' = [threads EXCEPT ![t].at = "idle"]
    /\ UNCHANGED <<graphVars, slot, on_passthrough, last, first_sid,
                   recent_sid, slotVars, registryVars>>

ConcurrentInit ==
    /\ GraphIdle
    /\ SideInit
    /\ slot = <<>>
    /\ session_id = None
    /\ on_passthrough = TRUE
    /\ last = NoCall
    /\ threads = NoThreads
    /\ first_sid = None
    /\ recent_sid = None

ConcurrentNext ==
    \E t \in Threads :
        \/ execute_post(t)
        \/ execute_response(t)
        \/ execute_store(t)

ConcurrentSpec == ConcurrentInit /\ [][ConcurrentNext]_vars

\* -------------------------------------------------- passthrough slot, alone
\* what a passthrough callback may deliver
Items ==
    [content : {"body1", "article"}, metadata : {"m1", "{}"}]

\* a call of handle_passthrough
slot_write ==
    /\ Len(unread) < MaxUnread
    /\ \E item \in Items :
         /\ slot' = handle_passthrough(slot, item.content, item.metadata)
         /\ unread' = Append(unread, item)
    /\ slot_op' = "write"
    /\ UNCHANGED <<read_from, read_result, registryVars, graphVars,
                   session_id, clientVars>>

\* a call of get_last_passthrough_content
slot_read ==
    /\ LET r == get_last_passthrough_content(slot)
       IN  /\ read_result' = r.content
           /\ slot' = r.slot
    /\ read_from' = unread
    /\ unread' = <<>>
    /\ slot_op' = "read"
    /\ UNCHANGED <<registryVars, graphVars, session_id, clientVars>>

SlotInit ==
    /\ GraphIdle
    /\ SideInit
    /\ slot = <<>>
    /\ session_id = None
    /\ on_passthrough = TRUE
    /\ last = NoCall
    /\ threads = NoThreads
    /\ first_sid = None
    /\ recent_sid = None

SlotNext ==
    \/ slot_write
    \/ slot_read

SlotSpec == SlotInit /\ [][SlotNext]_vars

\* ------------------------------------------------------ tool registry, alone
\* names the gateway may list
RemoteNames ==
    { RemoteTool, <<"find", ":", "order">>, <<"request", "_", "refund">>,
      <<"weather", ":", "now">> }

Listings ==
    UNION { [1..n -> RemoteNames] : n \in 0..MaxRemote }

\* what the gateway does while the tools are loaded: every step works, or
\* the health check cannot connect or answers a non-success status, the tool
\* listing fails, a listed tool lacks a field, or the second listing fails
LoadFailures ==
    {"none", "health_unreachable", "health_status", "listing", "manifest",
     "triks"}

\* trik_client.load_trik_tools: the health check, then the listing turned
\* into tools; a failing step raises
client_load_trik_tools(listing, failure) ==
    IF failure \in {"health_unreachable", "health_status", "listing", "manifest"}
    THEN [raised |-> TRUE, tools |-> <<>>]
    ELSE [raised |-> FALSE, tools |-> create_langchain_tools(listing)]

\* ToolLoader.load_trik_tools without its except clause
load_trik_tools_unguarded(listing, failure) ==
    LET loaded == client_load_trik_tools(listing, failure)
    IN  IF loaded.raised \/ failure = "triks"
        THEN [raised |-> TRUE, tools |-> <<>>]
        ELSE loaded

\* ToolLoader.load_trik_tools: the remote tools; any exception of the health
\* check, the listing, the manifest or the second listing is caught and the
\* loader returns no remote tool
load_trik_tools(listing, failure) ==
    LET loaded == client_load_trik_tools(listing, failure)
    IN  IF loaded.raised \/ failure = "triks"
        THEN [raised |-> FALSE, tools |-> <<>>]
        ELSE loaded

\* load_all_tools, as initialize_agent_with_triks calls it before it builds
\* the graph; an exception would leave main through sys.exit
load_all_tools ==
    /\ \E listing \in Listings, failure \in LoadFailures :
         LET loaded == load_trik_tools(listing, failure)
         IN  /\ load_failure' = failure
             /\ IF loaded.raised
                THEN /\ init_status' = "aborted"
                     /\ all_tools' = all_tools
                ELSE /\ init_status' = "ready"
                     /\ all_tools' = get_all_tools(loaded.tools)
    /\ UNCHANGED <<handled, slot, slotVars, graphVars, session_id, clientVars>>

\* ToolNode runs a call by its name
dispatch ==
    /\ \E i \in DOMAIN all_tools :
         handled' = ToolByName(all_tools, all_tools[i].name)
    /\ UNCHANGED <<all_tools, init_status, load_failure, slot, slotVars,
                   graphVars, session_id, clientVars>>

RegistryInit ==
    /\ GraphIdle
    /\ unread = <<>>
    /\ slot_op = "none"
    /\ read_from = <<>>
    /\ read_result = <<>>
    /\ all_tools = BUILT_IN_TOOLS
    /\ handled = LocalTool(request_refund)
    /\ init_status = "none"
    /\ load_failure = "none"
    /\ slot = <<>>
    /\ session_id = None
    /\ on_passthrough = TRUE
    /\ last = NoCall
    /\ threads = NoThreads
    /\ first_sid = None
    /\ recent_sid = None

RegistryNext ==
    \/ load_all_tools
    \/ dispatch

RegistrySpec == RegistryInit /\ [][RegistryNext]_vars

\* ================================================================== claims
\* the tool calls emitted by the AI messages of a conversation
CallsOf(st) ==
    {c \in UNION {{st[i].calls[k] : k \in DOMAIN st[i].calls} : i \in DOMAIN st} :
        TRUE}

\* number of result turns that answer a call id
ResultsFor(st, id) ==
    Cardinality({j \in DOMAIN st : st[j].type = "tool" /\ st[j].id = id})

DispatchedIds == {dispatched[i].id : i \in DOMAIN dispatched}

\* C1: when the cycle is at Terminal, every tool call id emitted by an
\* assistant turn has exactly one result turn with that id.
C1_EveryCallAnsweredOnce ==
    pc = "END" => \A c \in CallsOf(state) : ResultsFor(state, c.id) = 1

\* C2: a call the validation gate rejected is never dispatched by the tool
\* registry, and the rejecting step hands control back to the decision step.
C2_RejectedNeverExecuted ==
    /\ [](\A g \in gate : ~g.valid => g.id \notin DispatchedIds)
    /\ [][(pc = "validate_refund" /\ Len(state') > Len(state))
              => pc' = "agent"]_vars

\* a rejection happened and a later decision step had its calls dispatched
C2_Witness ==
    \E g \in gate : ~g.valid /\ \E id \in DispatchedIds : id > g.id

\* C3: every executed request_refund call was evaluated by the validation
\* gate, on its own arguments, with verdict valid.
C3_RefundValidatedBeforeExecuted ==
    \A i \in DOMAIN dispatched :
        dispatched[i].name = request_refund =>
            \E g \in gate : /\ g.id = dispatched[i].id
                             /\ g.reason = dispatched[i].reason
                             /\ g.valid

\* ------------------------------------------------------ claims on the client
Range(f) == {f[i] : i \in DOMAIN f}

IsPassthroughSuccess ==
    /\ last.op = "execute_tool"
    /\ last.resp.success
    /\ last.resp.responseMode = "passthrough"

FetchedItem ==
    [content |-> Get(last.cr, "content", ""),
     metadata |-> Get(last.cr, "metadata", "{}")]

CanDeliver ==
    /\ IsPassthroughSuccess
    /\ Truthy(Get(last.resp, "userContentRef", None))
    /\ last.cr.status = "ok" /\ last.cr.success
    /\ on_passthrough

C5_TemplateReturnsResponse ==
    (/\ last.op = "execute_tool"
     /\ last.resp.success
     /\ last.resp.responseMode = "template")
    => /\ last.resp.response # Absent
            => last.out.ret = Return(<<last.resp.response>>)
       /\ last.out.ret.kind = "return"
       /\ last.out.fetches = <<>>
       /\ last.out.callbacks = <<>>

C5_Witness ==
    /\ last.op = "execute_tool"
    /\ last.resp.success
    /\ last.resp.responseMode = "template"
    /\ last.resp.response = "r1"
    /\ last.resp.userContentRef = "ref1"

\* C8 as stated: once a response has supplied a session id, every invoke
\* without an explicit token transmits that first id.
C8_FirstTokenKept ==
    (last.sent /\ ~Truthy(last.explicit) /\ last.first_before # None)
        => last.out.payload.sessionId = last.first_before

\* C8: the client stores one session id, the one supplied by the latest ok
\* response that supplied a non-empty one, and every invoke without an
\* explicit token transmits that id (no sessionId before any was stored).
C8_LatestTokenReused ==
    /\ session_id = recent_sid
    /\ (last.sent /\ ~Truthy(last.explicit))
          => /\ last.out.payload.sessionId =
                  (IF last.before = None THEN Absent ELSE last.before)
             /\ (first_sid = None) = (session_id = None)

C8_Witness ==
    /\ last.sent /\ ~Truthy(last.explicit)
    /\ last.first_before = "s1"
    /\ last.before = "s2"
    /\ last.out.payload.sessionId = "s2"

\* a parameter counts as supplied when the tool call gives it a value
SuppliedValue(k) == k \in DOMAIN last.supplied /\ last.supplied[k] # None

\* C10: the input object of the transmitted payload has exactly the supplied
\* parameters, each with its value unchanged; an optional parameter without a
\* value is absent from it.
C10_UnsetOptionalOmitted ==
    (last.op = "execute_tool" /\ last.sent /\ last.schema = SearchSchema) =>
        \A k \in DOMAIN SearchSchema.properties :
            IF SuppliedValue(k)
            THEN /\ k \in DOMAIN last.out.payload.input
                 /\ last.out.payload.input[k] = last.supplied[k]
            ELSE k \notin DOMAIN last.out.payload.input

C10_Witness ==
    /\ last.op = "execute_tool" /\ last.sent
    /\ last.schema = SearchSchema
    /\ "limit" \notin DOMAIN last.supplied
    /\ "limit" \in DOMAIN last.kwargs
    /\ "limit" \notin DOMAIN last.out.payload.input

\* ------------------------------------------------------- claims on the cycle
\* the calls the tools node dispatched in this step
NewlyDispatched == SubSeq(dispatched', Len(dispatched) + 1, Len(dispatched'))

ReportsFailure(resp) == ~resp.success \/ ~resp.ok

\* C6: a failure the gateway reports never leaves the tools node as an
\* exception; the call gets the result turn "Error: <message>" and the cycle
\* goes back to the decision step.
C6_RemoteFailureBecomesResult ==
    [][pc = "tools" =>
        LET new == NewlyDispatched
            failed == {i \in DOMAIN new :
                          new[i].name = RemoteName /\ ReportsFailure(new[i].resp)}
        IN  /\ pc' = "raised" =>
                  \E i \in DOMAIN new \ failed :
                      new[i].name = RemoteName
                      /\ new[i].resp.responseMode = "passthrough"
            /\ pc' = "agent" =>
                  \A i \in failed :
                      state'[Len(state) + i] =
                          ToolMessage(new[i].id,
                              <<"Error: ",
                                Get(new[i].resp, "error", "Unknown error")>>)
            /\ pc' \in {"agent", "raised"}]_vars

C6_Witness ==
    /\ pc = "agent"
    /\ \E i \in DOMAIN dispatched, j \in DOMAIN state :
          /\ dispatched[i].resp = FailureTemplateResponse
          /\ dispatched[i].name = RemoteName
          /\ state[j] = ToolMessage(dispatched[i].id,
                                    <<"Error: ", "Unknown error">>)

\* ------------------------------------------------------- claims on the slot
\* the item of the latest write in a sequence of writes, if any
LatestOf(writes) == IF writes = <<>> THEN <<>> ELSE <<Last(writes)>>

\* C7: the slot holds at most one item; a read returns the item of the latest
\* write no read has followed, and nothing when no write came since the
\* previous read.
C7_SlotHoldsLatestUnread ==
    /\ Len(slot) <= 1
    /\ slot = LatestOf(unread)
    /\ slot_op = "read" => read_result = LatestOf(read_from)

C7_Witness ==
    /\ slot_op = "read"
    /\ Len(read_from) >= 2
    /\ read_from[1] # read_from[2]
    /\ read_result = <<read_from[Len(read_from)]>>

\* --------------------------------------------------- claims on the registry
LocalNames == {BUILT_IN_TOOLS[i].name : i \in DOMAIN BUILT_IN_TOOLS}

\* C9: in the merged registry every name is bound to one handler, and a call
\* by a local tool's name runs the local handler.
C9_LocalNeverOverridden ==
    /\ \A i, j \in DOMAIN all_tools :
          all_tools[i].name = all_tools[j].name => i = j
    /\ \A n \in LocalNames : ToolByName(all_tools, n).kind = "local"
    /\ handled.name \in LocalNames => handled.kind = "local"

\* C11: whichever step of loading the remote tools fails, loading does not
\* abort: it yields exactly the local tools, and initialization completes.
C11_LoadFailureKeepsLocalTools ==
    load_failure # "none" =>
        /\ init_status = "ready"
        /\ all_tools = BUILT_IN_TOOLS

\* a manifest failure happened and a call was then run from the registry
C11_Witness ==
    /\ load_failure = "manifest"
    /\ init_status = "ready"
    /\ handled = LocalTool(find_order)

\* ------------------------------------------------------- claims on the loop
\* C12: after a turn whose cycle raised, the loop is back at its prompt and
\* the conversation it keeps equals the one kept before that turn's input
\* was submitted.
C12_FailedTurnRestoresConversation ==
    turn_result = "failed" =>
        /\ pc = "input"
        /\ messages = stored_before

\* C13 as stated: in the cycle of every user turn, every validating and
\* executing step leads back to the decision step, and with a model that ends
\* up answering with plain text the cycle reaches END.
C13_EveryCycleReachesTerminal ==
    \A n \in 1..MaxTurns :
        /\ (turns = n /\ pc \in {"validate_refund", "tools"})
               ~> (turns = n /\ pc = "agent")
        /\ (turns = n /\ pc = "agent") ~> (turns = n /\ pc = "END")

\* the last message of a conversation is an assistant turn without tool calls
PlainAnswer(st) ==
    st # <<>> /\ Last(st).type = "ai" /\ Last(st).calls = <<>>

\* C13: a decision step that returns goes to END exactly when its answer has
\* no tool call, and END is entered from nowhere else; a validating step goes
\* to the decision step or the tools node and an executing step to the
\* decision step, unless it raises; with a model that ends up answering with
\* plain text no node of a running cycle is stuck: the cycle ends, at END
\* with the last assistant turn as the answer main prints and stores, or by
\* an exception of the validator or of a tool, which main catches.
C13_CycleEndsOrRaises ==
    /\ [][/\ pc = "agent" => (pc' = "END" <=> PlainAnswer(state'))
          /\ pc' = "END" => pc \in {"agent", "END"}
          /\ pc = "validate_refund" => pc' \in {"agent", "tools", "raised"}
          /\ pc = "tools" => pc' \in {"agent", "raised"}
          /\ pc = "END" => PlainAnswer(state) /\ Last(messages') = Last(state)
          /\ pc = "raised" => pc' = "input"
         ]_vars
    /\ (pc \in {"agent", "validate_refund", "tools"})
          ~> (pc \in {"END", "raised"})

\* a cycle went through the gate and the tools node and reached END
C13_Witness ==
    /\ pc = "END"
    /\ gate # {}
    /\ dispatched # <<>>
    /\ PlainAnswer(state)

\* the calls of one assistant turn
CallsIn(message) == {message.calls[k] : k \in DOMAIN message.calls}

\* C14: when the cycle is at END, every call other than request_refund that
\* came in one assistant turn with a request_refund call was dispatched by
\* the tools node and has its own result turn, whatever the gate's verdict.
C14_SharedStepCallDispatched ==
    pc = "END" =>
        \A i \in DOMAIN state :
            (\E g \in CallsIn(state[i]) : g.name = request_refund) =>
                \A c \in CallsIn(state[i]) :
                    c.name # request_refund =>
                        /\ c.id \in DispatchedIds
                        /\ ResultsFor(state, c.id) = 1

\* ---------------------------------------------- claims on the session token
\* C15: an invocation answered with a non-success HTTP status, or with an
\* envelope whose success is false, leaves the stored session id as it was
\* before the invocation, whatever sessionId the response carries.
C15_TokenStoredOnlyOnSuccess ==
    (last.sent /\ (~last.resp.ok \/ ~last.resp.success))
        => session_id = last.before

\* ------------------------------------------- claims on the slot in the loop
\* C16: whenever main starts the cycle of a user turn the slot is empty, also
\* after a turn that ended with an exception.
C16_SlotEmptyAtTurnStart ==
    [][(pc = "input" /\ pc' = "agent") => slot = <<>>]_vars

\* ----------------------------------------------- claims on the conversation
IsPrefix(s, t) == Len(s) <= Len(t) /\ SubSeq(t, 1, Len(s)) = s

\* C17: the conversation main keeps only grows at its end, over every step;
\* every step of a running cycle only appends to the graph's messages; a
\* completed turn stores the graph's messages, which extend the stored ones.
C17_ConversationAppendOnly ==
    [][/\ IsPrefix(messages, messages')
       /\ pc \in {"agent", "validate_refund", "tools"}
             => IsPrefix(state, state') /\ IsPrefix(messages, state')
       /\ pc = "END" => messages' = state /\ IsPrefix(messages, state)
      ]_vars

\* two turns were completed, each with a tool step
C17_Witness ==
    /\ turn_result = "answered"
    /\ turns = 2
    /\ Len(stored_before) >= 4
    /\ Len(messages) >= Len(stored_before) + 4

\* ---------------------------------------------- claims on the valid verdict
\* the verdicts the validating step of this transition added
NewVerdicts == gate' \ gate

\* C18: a validating step whose verdict is valid leaves the conversation as
\* it is and goes to the tools node; the tools step that then returns to the
\* decision step has dispatched the validated call with its id, name and
\* arguments and has appended exactly one result turn with that id.
C18_ValidVerdictExecutesOriginal ==
    [][/\ (pc = "validate_refund" /\ \E g \in NewVerdicts : g.valid)
            => /\ state' = state
               /\ messages' = messages
               /\ pc' = "tools"
       /\ (pc = "tools" /\ pc' = "agent")
            => \A c \in CallsIn(LatestAIMessage(state)) :
                   (\E g \in gate : g.id = c.id /\ g.valid)
                   => /\ \E i \in DOMAIN NewlyDispatched :
                           /\ NewlyDispatched[i].id = c.id
                           /\ NewlyDispatched[i].name = c.name
                           /\ NewlyDispatched[i].reason = c.reason
                           /\ state'[Len(state) + i].type = "tool"
                           /\ state'[Len(state) + i].id = c.id
                      /\ ResultsFor(state, c.id) = 0
                      /\ ResultsFor(state', c.id) = 1
      ]_vars

\* a request_refund call with a valid verdict was executed and answered
C18_Witness ==
    /\ pc = "agent"
    /\ Last(state).type = "tool"
    /\ \E g \in gate :
          /\ g.valid
          /\ g.id \in DispatchedIds
          /\ ResultsFor(state, g.id) = 1

\* ------------------------------------------------- claims on a shared client
\* a thread is between its read of the stored session id and its store
InFlight(t) == threads[t].at \in {"posted", "received"}

\* C19: of the threads sharing a client at most one at a time is between its
\* read of the stored session id and its store, so the id a thread sent is
\* still the stored one until that thread stores.
C19_TokenUpdatesSerialized ==
    /\ \A t, u \in Threads : (InFlight(t) /\ InFlight(u)) => t = u
    /\ \A t \in Threads : InFlight(t) => threads[t].sid = session_id

\* ------------------------------------------- claims on required parameters
\* the tool's input schema declares a required parameter the call leaves out
OmitsRequired ==
    /\ last.op \in {"execute_tool", "invalid"}
    /\ \E k \in GetKey(last.schema, "required", {}) :
          k \notin DOMAIN last.supplied

\* C20: a call that leaves out a parameter the tool's input schema declares
\* required fails before tool_func runs and no execute request is sent,
\* whether or not the schema has a properties map or the type "object".
C20_MissingRequiredNeverSent ==
    OmitsRequired => (last.op = "invalid" /\ ~last.sent)

\* ------------------------------------------- claims on the acknowledgment
\* the text tells the agent that content was delivered to the user
ClaimsDelivery(text) ==
    \/ text = <<"Content delivered to user.">>
    \/ (text # <<>> /\ Last(text) = " delivered to user]")

\* C21: for a successful passthrough envelope, execute_tool returns a text
\* saying content was delivered only if it called the passthrough callback
\* with fetched content during that invocation.
C21_DeliveryClaimedOnlyIfDelivered ==
    (/\ IsPassthroughSuccess
     /\ last.out.ret.kind = "return"
     /\ ClaimsDelivery(last.out.ret.text))
    => last.out.callbacks # <<>>

\* C22: a call of execute with an explicit session id transmits that id and
\* leaves the stored session id as it was before the call, whatever sessionId
\* the response carries.
C22_ExplicitTokenSingleCall ==
    (last.op = "execute" /\ Truthy(last.explicit))
        => /\ last.out.payload.sessionId = last.explicit
           /\ session_id = last.before
====
